---- MODULE Spec2Model ----
(***************************************************************************)
(* Model of scripts/github-release.py: main() and create_github_release(). *)
(* One run of the command-line uploader: argument check, token lookup,     *)
(* file-existence check, the create-release POST, the asset-upload POST    *)
(* and the exit status.  The remote host, the environment and the file     *)
(* system are inputs chosen nondeterministically from small sets.          *)
(***************************************************************************)
EXTENDS Integers, Sequences, FiniteSets, TLC

\* ---- bounds ----
MaxArgv == 5
MaxPathLen == 3
MaxUrlLen == 3

\* ---- input alphabets ----
PathChars == {"a", "/", "."}
UrlChars == {"u", "{"}
None == "<None>"
EnvValues(v) == {None, "", v}
Statuses == {200, 201, 422}
Texts == {"body1", "body2"}
FileKinds == {"missing", "file", "dir", "noperm"}
Repo == "owner/name"
Version == "v1"

Strings(chars, n) == UNION {[1..k -> chars] : k \in 0..n}

\* ---- Python helpers ----
\* bool(v) for str-or-None values
TruthyNotNone(v) == v # None
Truthy(v) == v # None /\ v # ""

\* a or b
PyOrSecondFirst(a, b) == IF Truthy(b) THEN b ELSE a
PyOr(a, b) == IF Truthy(a) THEN a ELSE b

\* s.split('{')[0]
RECURSIVE SplitFirst(_)
SplitFirst(s) ==
    IF s = <<>> \/ Head(s) = "{" THEN <<>>
    ELSE <<Head(s)>> \o SplitFirst(Tail(s))

\* upload_url = release_data['upload_url'].split('{')[0]
StripTemplateKeep(upload_url) == upload_url
StripTemplate(upload_url) == SplitFirst(upload_url)

\* the parts of a path as pathlib parses it: split on '/', drop '' and '.'
RECURSIVE Segments(_, _)
Segments(s, cur) ==
    IF s = <<>> THEN <<cur>>
    ELSE IF Head(s) = "/" THEN <<cur>> \o Segments(Tail(s), <<>>)
    ELSE Segments(Tail(s), Append(cur, Head(s)))

PathParts(p) == SelectSeq(Segments(p, <<>>), LAMBDA c : c # <<>> /\ c # <<".">>)

\* Path(p).name
PathName(p) == IF PathParts(p) = <<>> THEN <<>> ELSE PathParts(p)[Len(PathParts(p))]

\* what the file system can hold at a path: a path that is empty, ends in
\* '/', or whose last segment is '.' or '..' only ever names a directory
NamesDirectory(p) ==
    \/ p = <<>>
    \/ p[Len(p)] = "/"
    \/ Segments(p, <<>>)[Len(Segments(p, <<>>))] \in {<<".">>, <<".", ".">>}
KindsAt(p) == IF NamesDirectory(p) THEN {"missing", "dir"} ELSE FileKinds

\* Path.exists()
ExistsAlways(kind) == TRUE
Exists(kind) == kind # "missing"

\* open(path, 'rb') succeeds
Readable(kind) == kind = "file"

\* status_code != 201 tests
CreateOkLoose(status) == status \in {200, 201}
CreateOk(status) == status = 201
UploadOkLoose(status) == TRUE
UploadOk(status) == status = 201

\* ---- responses of the remote host ----
CreateKeys == {"id", "upload_url", "html_url"}
AssetKeys == {"browser_download_url"}
ReleaseJson(n, url) == [id |-> n, upload_url |-> url, html_url |-> IF n = 1 THEN "html1" ELSE IF n = 2 THEN "html2" ELSE ""]
AssetJson(n) == [browser_download_url |-> IF n = 1 THEN "dl1" ELSE IF n = 2 THEN "dl2" ELSE ""]
NoResp == [status |-> 0, text |-> "", valid |-> FALSE, keys |-> {}, json |-> ReleaseJson(0, <<>>)]
NoAsset == [status |-> 0, text |-> "", valid |-> FALSE, keys |-> {}, json |-> AssetJson(0)]

CreateResponses ==
    {[status |-> s, text |-> t, valid |-> FALSE, keys |-> {}, json |-> ReleaseJson(0, <<>>)] :
        s \in Statuses \ {201}, t \in Texts}
    \cup {[status |-> 201, text |-> "body1", valid |-> FALSE, keys |-> {}, json |-> ReleaseJson(0, <<>>)]}
    \cup {[status |-> 201, text |-> "body1", valid |-> TRUE, keys |-> CreateKeys \ {k}, json |-> ReleaseJson(1, <<"u">>)] :
        k \in CreateKeys}
    \cup {[status |-> 201, text |-> "body1", valid |-> TRUE, keys |-> CreateKeys, json |-> ReleaseJson(n, u)] :
        n \in 1..2, u \in Strings(UrlChars, MaxUrlLen)}

UploadResponses ==
    {[status |-> s, text |-> t, valid |-> FALSE, keys |-> {}, json |-> AssetJson(0)] :
        s \in Statuses \ {201}, t \in Texts}
    \cup {[status |-> 201, text |-> "body1", valid |-> FALSE, keys |-> {}, json |-> AssetJson(0)]}
    \cup {[status |-> 201, text |-> "body1", valid |-> TRUE, keys |-> {}, json |-> AssetJson(0)]}
    \cup {[status |-> 201, text |-> "body1", valid |-> TRUE, keys |-> AssetKeys, json |-> AssetJson(n)] :
        n \in 1..2}

\* ---- errors ----
Error(type, what, status, text) == [type |-> type, what |-> what, status |-> status, text |-> text]
NoResult == [release_url |-> "", download_url |-> "", release_id |-> 0]

ResultSwapped(release_data, release_id, download_url) ==
    [release_url |-> download_url, download_url |-> release_data.html_url, release_id |-> release_id]
Result(release_data, release_id, download_url) ==
    [release_url |-> release_data.html_url, download_url |-> download_url, release_id |-> release_id]

ExitFailure == 1

VARIABLES pc, argvLen, installer_path, release_notes, env, fileKind,
          token, calls, createResp, uploadResp, release_data, result,
          exitCode, printed, steps

vars == <<pc, argvLen, installer_path, release_notes, env, fileKind,
          token, calls, createResp, uploadResp, release_data, result,
          exitCode, printed, steps>>

inputs == <<argvLen, installer_path, release_notes, env, fileKind>>

Init ==
    /\ pc = "main"
    /\ argvLen \in 1..MaxArgv
    /\ installer_path \in IF argvLen < 4 THEN {<<>>} ELSE Strings(PathChars, MaxPathLen)
    /\ release_notes \in IF argvLen > 4 THEN {"", "notes"} ELSE {""}
    /\ env \in [GITHUB_PAT : EnvValues("pat"), GITHUB_TOKEN : EnvValues("tok")]
    /\ fileKind \in IF argvLen < 4 THEN {"missing"} ELSE KindsAt(installer_path)
    /\ token = None
    /\ calls = <<>>
    /\ createResp = NoResp
    /\ uploadResp = NoAsset
    /\ release_data = ReleaseJson(0, <<>>)
    /\ result = NoResult
    /\ exitCode = -1
    /\ printed = <<>>
    /\ steps = <<>>

\* sys.exit(1) after a printed message
ExitWith(msg) ==
    /\ printed' = Append(printed, msg)
    /\ exitCode' = ExitFailure
    /\ pc' = "exited"

\* main's `except Exception as e`: print the error, sys.exit(1)
MainExceptSwallow(e) ==
    /\ printed' = Append(printed, [tag |-> "Error", e |-> e])
    /\ exitCode' = 0
    /\ pc' = "exited"
MainExcept(e) ==
    /\ printed' = Append(printed, [tag |-> "Error", e |-> e])
    /\ exitCode' = ExitFailure
    /\ pc' = "exited"

\* main: if len(sys.argv) < 4: usage, sys.exit(1)
CheckArgs ==
    /\ pc = "main"
    /\ steps' = Append(steps, "args")
    /\ IF argvLen < 4
         THEN ExitWith([tag |-> "Usage"])
         ELSE /\ pc' = "token"
              /\ UNCHANGED <<printed, exitCode>>
    /\ UNCHANGED <<inputs, token, calls, createResp, uploadResp, release_data, result>>

\* main: token = getenv(PAT) or getenv(TOKEN); if not token: sys.exit(1)
GetToken ==
    /\ pc = "token"
    /\ steps' = Append(steps, "token")
    /\ token' = PyOr(env.GITHUB_PAT, env.GITHUB_TOKEN)
    /\ IF ~Truthy(token')
         THEN ExitWith([tag |-> "NoToken"])
         ELSE /\ pc' = "entered"
              /\ UNCHANGED <<printed, exitCode>>
    /\ UNCHANGED <<inputs, calls, createResp, uploadResp, release_data, result>>

\* create_github_release: if not installer_file.exists(): raise FileNotFoundError
CheckFile ==
    /\ pc = "entered"
    /\ steps' = Append(steps, "file")
    /\ IF ~Exists(fileKind)
         THEN MainExcept(Error("FileNotFoundError", "Installer not found", 0, ""))
         ELSE /\ pc' = "create"
              /\ UNCHANGED <<printed, exitCode>>
    /\ UNCHANGED <<inputs, token, calls, createResp, uploadResp, release_data, result>>

CreateCall ==
    [kind |-> "create", method |-> "POST", repo |-> Repo, token |-> token,
     tag_name |-> Version, body |-> PyOr(release_notes, "default"),
     url |-> <<>>, name |-> <<>>]

\* requests.post(.../releases): the host answers, or the request raises
PostCreate ==
    /\ pc = "create"
    /\ steps' = Append(steps, "create")
    /\ calls' = Append(calls, CreateCall)
    /\ \/ /\ \E r \in CreateResponses : createResp' = r
          /\ pc' = "created"
          /\ UNCHANGED <<printed, exitCode>>
       \/ /\ MainExcept(Error("RequestException", "", 0, ""))
          /\ UNCHANGED createResp
    /\ UNCHANGED <<inputs, token, uploadResp, release_data, result>>

\* if create_response.status_code != 201: raise Exception(...)
CheckCreateStatusRetry ==
    /\ pc = "created"
    /\ pc' = IF ~CreateOk(createResp.status) THEN "create" ELSE "parse"
    /\ UNCHANGED <<inputs, token, calls, createResp, uploadResp, release_data, result, steps,
                   printed, exitCode>>
CheckCreateStatus ==
    /\ pc = "created"
    /\ IF ~CreateOk(createResp.status)
         THEN MainExcept(Error("Exception", "Failed to create release", createResp.status, createResp.text))
         ELSE /\ pc' = "parse"
              /\ UNCHANGED <<printed, exitCode>>
    /\ UNCHANGED <<inputs, token, calls, createResp, uploadResp, release_data, result, steps>>

\* release_data = create_response.json(); ['id'], ['upload_url'], ['html_url']
ParseRelease ==
    /\ pc = "parse"
    /\ IF ~createResp.valid
         THEN /\ MainExcept(Error("JSONDecodeError", "", 0, ""))
              /\ UNCHANGED release_data
         ELSE IF ~(CreateKeys \subseteq createResp.keys)
         THEN /\ MainExcept(Error("KeyError", "", 0, ""))
              /\ release_data' = createResp.json
         ELSE /\ release_data' = createResp.json
              /\ printed' = Append(printed, [tag |-> "Created", url |-> createResp.json.html_url])
              /\ pc' = "open"
              /\ UNCHANGED exitCode
    /\ UNCHANGED <<inputs, token, calls, createResp, uploadResp, result, steps>>

\* installer_file.stat(); with open(installer_path, 'rb') as f
OpenFile ==
    /\ pc = "open"
    /\ IF ~Readable(fileKind)
         THEN MainExcept(Error("OSError", "", 0, ""))
         ELSE /\ pc' = "upload"
              /\ printed' = Append(printed, [tag |-> "Uploading", name |-> PathName(installer_path)])
              /\ UNCHANGED exitCode
    /\ UNCHANGED <<inputs, token, calls, createResp, uploadResp, release_data, result, steps>>

UploadCall ==
    [kind |-> "upload", method |-> "POST", repo |-> Repo, token |-> token,
     tag_name |-> Version, body |-> "bytes",
     url |-> StripTemplate(release_data.upload_url), name |-> PathName(installer_path)]

\* requests.post(upload_url, params={'name': ...}, data=f)
PostUpload ==
    /\ pc = "upload"
    /\ steps' = Append(steps, "upload")
    /\ calls' = Append(calls, UploadCall)
    /\ \/ /\ UploadCall.url # <<>>
          /\ \E r \in UploadResponses : uploadResp' = r
          /\ pc' = "uploaded"
          /\ UNCHANGED <<printed, exitCode>>
       \/ /\ MainExcept(Error("RequestException", "", 0, ""))
          /\ UNCHANGED uploadResp
    /\ UNCHANGED <<inputs, token, createResp, release_data, result>>

\* if upload_response.status_code != 201: raise Exception(...)
CheckUploadStatus ==
    /\ pc = "uploaded"
    /\ IF ~UploadOk(uploadResp.status)
         THEN MainExcept(Error("Exception", "Failed to upload asset", uploadResp.status, uploadResp.text))
         ELSE /\ pc' = "asset"
              /\ UNCHANGED <<printed, exitCode>>
    /\ UNCHANGED <<inputs, token, calls, createResp, uploadResp, release_data, result, steps>>

\* asset_data = upload_response.json(); ['browser_download_url']; return {...};
\* main prints the release page and falls off the end
ReturnResult ==
    /\ pc = "asset"
    /\ IF ~uploadResp.valid
         THEN /\ MainExcept(Error("JSONDecodeError", "", 0, ""))
              /\ UNCHANGED result
         ELSE IF ~(AssetKeys \subseteq uploadResp.keys)
         THEN /\ MainExcept(Error("KeyError", "", 0, ""))
              /\ UNCHANGED result
         ELSE /\ result' = Result(release_data, release_data.id, uploadResp.json.browser_download_url)
              /\ printed' = Append(printed, [tag |-> "Success", url |-> result'.release_url])
              /\ exitCode' = 0
              /\ pc' = "exited"
    /\ UNCHANGED <<inputs, token, calls, createResp, uploadResp, release_data, steps>>

Next ==
    \/ CheckArgs
    \/ GetToken
    \/ CheckFile
    \/ PostCreate
    \/ CheckCreateStatus
    \/ ParseRelease
    \/ OpenFile
    \/ PostUpload
    \/ CheckUploadStatus
    \/ ReturnResult

Spec == Init /\ [][Next]_vars

TypeOK ==
    /\ pc \in {"main", "token", "entered", "create", "created", "parse", "open",
               "upload", "uploaded", "asset", "exited"}
    /\ exitCode \in {-1, 0, 1}
    /\ Len(calls) <= 2
\* ---- properties ----
NonEmpty(v) == v \notin {None, ""}
LastPrinted == printed[Len(printed)]
Failed == pc = "exited" /\ exitCode # 0 /\ printed # <<>>
FailedWith(what, status, text) ==
    /\ Failed
    /\ LastPrinted.tag = "Error"
    /\ LastPrinted.e.what = what
    /\ LastPrinted.e.status = status
    /\ LastPrinted.e.text = text
CallsOf(kind) == {i \in 1..Len(calls) : calls[i].kind = kind}
Did(step) == \E i \in 1..Len(steps) : steps[i] = step
IsPrefix(s, t) == Len(s) <= Len(t) /\ SubSeq(t, 1, Len(s)) = s
IsSuffix(s, t) == Len(s) <= Len(t) /\ SubSeq(t, Len(t) - Len(s) + 1, Len(t)) = s
Has(s, ch) == \E i \in 1..Len(s) : s[i] = ch

\* C1: when the installer path does not exist, no network call is ever made
\* and the run ends with a non-zero exit; once the file check is the step
\* that stops it, the error is the FileNotFoundError.
C1_MissingFileNoNetwork ==
    fileKind = "missing" =>
        /\ calls = <<>>
        /\ pc \notin {"create", "created", "parse", "open", "upload", "uploaded", "asset"}
        /\ pc = "exited" => Failed
        /\ (pc = "exited" /\ Did("file")) =>
              LastPrinted = [tag |-> "Error", e |-> Error("FileNotFoundError", "Installer not found", 0, "")]
C1_Witness == fileKind = "missing" /\ pc = "exited" /\ Did("file")

\* C2: when neither GITHUB_PAT nor GITHUB_TOKEN is non-empty, main exits
\* non-zero, create_github_release is never entered and no call is made.
C2_NoTokenNoNetwork ==
    (~NonEmpty(env.GITHUB_PAT) /\ ~NonEmpty(env.GITHUB_TOKEN)) =>
        /\ calls = <<>>
        /\ ~Did("file")
        /\ pc \in {"main", "token", "exited"}
        /\ pc = "exited" => Failed
C2_Witness ==
    /\ pc = "exited" /\ Did("token")
    /\ env.GITHUB_PAT = "" /\ env.GITHUB_TOKEN = None
    /\ LastPrinted.tag = "NoToken"

\* C3: a create-release response with a status other than 201 makes the run
\* fail with an error carrying that status and the response body, and no
\* upload call is issued.
C3_CreateFailureNoUpload ==
    (Len(calls) >= 1 /\ pc # "created" /\ createResp.status \notin {0, 201}) =>
        /\ CallsOf("upload") = {}
        /\ FailedWith("Failed to create release", createResp.status, createResp.text)
C3_Witness ==
    /\ pc = "exited" /\ createResp.status = 422 /\ createResp.text = "body2"

\* C4: an upload call is only made after a 201, there is at most one, its
\* URL is the part of upload_url before the first '{', and its name
\* parameter is the text after the last '/' of installer_path.
C4_UploadTarget ==
    /\ Cardinality(CallsOf("upload")) <= 1
    /\ \A i \in CallsOf("upload") :
          /\ createResp.status = 201
          /\ IsPrefix(calls[i].url, createResp.json.upload_url)
          /\ ~Has(calls[i].url, "{")
          /\ \/ calls[i].url = createResp.json.upload_url
             \/ createResp.json.upload_url[Len(calls[i].url) + 1] = "{"
          /\ IsSuffix(calls[i].name, installer_path)
          /\ ~Has(calls[i].name, "/")
          /\ \/ calls[i].name = installer_path
             \/ installer_path[Len(installer_path) - Len(calls[i].name)] = "/"
C4_Witness ==
    /\ pc = "uploaded"
    /\ createResp.json.upload_url = <<"u", "{", "u">>
    /\ installer_path = <<".", "/", "a">>
    /\ calls[2].url = <<"u">> /\ calls[2].name = <<"a">>

\* C5: the exit status is zero exactly for the successful run (arguments,
\* token, file, and a well-formed 201 from both calls); every other run
\* ends non-zero after printing a message.
C5_ExitStatus ==
    /\ pc # "exited" => exitCode = -1
    /\ pc = "exited" =>
          /\ exitCode \in {0, 1}
          /\ printed # <<>>
          /\ exitCode = 0 <=>
                /\ argvLen >= 4
                /\ NonEmpty(env.GITHUB_PAT) \/ NonEmpty(env.GITHUB_TOKEN)
                /\ fileKind # "missing"
                /\ createResp.status = 201 /\ createResp.valid /\ CreateKeys \subseteq createResp.keys
                /\ uploadResp.status = 201 /\ uploadResp.valid /\ AssetKeys \subseteq uploadResp.keys
          /\ exitCode # 0 => LastPrinted.tag \in {"Usage", "NoToken", "Error"}
          /\ exitCode = 0 => LastPrinted.tag = "Success"
C5_Witness == pc = "exited" /\ exitCode = 0 /\ Len(calls) = 2
C5_WitnessFailure == pc = "exited" /\ exitCode = 1 /\ LastPrinted.tag = "Error"

\* C6: every call carries GITHUB_PAT when it is non-empty and otherwise the
\* non-empty GITHUB_TOKEN; the run stops for lack of a token only when both
\* are empty or unset.
C6_TokenChoice ==
    /\ \A i \in 1..Len(calls) :
          /\ NonEmpty(calls[i].token)
          /\ NonEmpty(env.GITHUB_PAT) => calls[i].token = env.GITHUB_PAT
          /\ ~NonEmpty(env.GITHUB_PAT) => calls[i].token = env.GITHUB_TOKEN
    /\ (pc = "exited" /\ LastPrinted.tag = "NoToken") =>
          ~NonEmpty(env.GITHUB_PAT) /\ ~NonEmpty(env.GITHUB_TOKEN)
C6_Witness ==
    /\ Len(calls) = 2
    /\ env.GITHUB_PAT = "" /\ env.GITHUB_TOKEN = "tok"
    /\ calls[1].token = "tok" /\ calls[2].token = "tok"
C6_WitnessPat ==
    /\ Len(calls) = 2
    /\ env.GITHUB_PAT = "pat" /\ env.GITHUB_TOKEN = "tok"
    /\ calls[1].token = "pat" /\ calls[2].token = "pat"

\* C7: after a 201 from create-release, an upload response other than 201
\* ends the run with the asset-upload error (status and body), a non-zero
\* exit, and exactly the two POST calls: nothing deletes or changes the
\* created release.
C7_UploadFailureLeavesRelease ==
    (createResp.status = 201 /\ uploadResp.status \notin {0, 201}) =>
        /\ Len(calls) = 2
        /\ calls[1].kind = "create" /\ calls[1].method = "POST"
        /\ calls[2].kind = "upload" /\ calls[2].method = "POST"
        /\ pc \in {"uploaded", "exited"}
        /\ pc = "exited" =>
              FailedWith("Failed to upload asset", uploadResp.status, uploadResp.text)
C7_Witness ==
    /\ pc = "exited" /\ createResp.status = 201
    /\ uploadResp.status = 422 /\ uploadResp.text = "body2"

Returned == result # NoResult

\* C8 as stated: both calls returning 201 is enough for the three values to
\* be returned, and a result is returned in no other case.
C8_Original ==
    /\ (pc = "exited" /\ createResp.status = 201 /\ uploadResp.status = 201) =>
          /\ Returned
          /\ result.release_url = createResp.json.html_url
          /\ result.release_id = createResp.json.id
          /\ result.download_url = uploadResp.json.browser_download_url
    /\ Returned => (createResp.status = 201 /\ uploadResp.status = 201)

\* C8 amended: when both calls return 201 and the upload response body is
\* JSON holding browser_download_url, the function returns release_url =
\* html_url, release_id = id, download_url = browser_download_url; it
\* returns a result in no other case.
C8_ReturnValue ==
    /\ (/\ pc = "exited" /\ createResp.status = 201 /\ uploadResp.status = 201
        /\ uploadResp.valid /\ AssetKeys \subseteq uploadResp.keys) =>
          /\ Returned
          /\ DOMAIN result = {"release_url", "download_url", "release_id"}
          /\ result.release_url = createResp.json.html_url
          /\ result.release_id = createResp.json.id
          /\ result.download_url = uploadResp.json.browser_download_url
    /\ Returned =>
          /\ createResp.status = 201 /\ uploadResp.status = 201
          /\ uploadResp.valid /\ AssetKeys \subseteq uploadResp.keys
C8_Witness ==
    /\ pc = "exited" /\ Returned
    /\ result = [release_url |-> "html2", download_url |-> "dl1", release_id |-> 2]

\* C9: the steps run in the order argument check, token check, file check,
\* create-release, upload, each at most once, and the upload call is issued
\* only after the create-release call of the run returned 201.
C9_StepOrder ==
    /\ IsPrefix(steps, <<"args", "token", "file", "create", "upload">>)
    /\ Cardinality(CallsOf("create")) <= 1
    /\ Cardinality(CallsOf("upload")) <= 1
    /\ Len(calls) = Cardinality(CallsOf("create")) + Cardinality(CallsOf("upload"))
    /\ \A i \in CallsOf("upload") :
          i = 2 /\ calls[1].kind = "create" /\ createResp.status = 201
C9_Witness ==
    /\ pc = "exited"
    /\ steps = <<"args", "token", "file", "create", "upload">>
    /\ Len(calls) = 2

\* C10: the create-release call is never issued unless the installer path
\* names a file that exists and can be opened for reading.
C10_ReadableBeforeCreate ==
    calls # <<>> => (Exists(fileKind) /\ Readable(fileKind))
====
